---- MODULE Spec2Model ----
(***************************************************************************)
(* lit_lib: the phrase registry (class Lit) and its per-language phrase    *)
(* tables (class LitLanguage) of src/lit_lib/__init__.py.                  *)
(*                                                                         *)
(* A Python str is a TLA+ string.  The module text is ASCII, so the one    *)
(* Cyrillic key of the model is written by its code points and chars()     *)
(* lists its characters, each Cyrillic character being named "U+XXXX".     *)
(* The backquote, which a TLA+ string cannot hold, is written "<U+0060>".  *)
(* A Python dict is a function whose DOMAIN is its key set.                *)
(***************************************************************************)
EXTENDS Integers, Sequences, FiniteSets, TLC

VARIABLES
    config_path,             \* Lit.config_path: "JSON_STRING" or the path of the file read
    nfi_arg,                 \* the not_found_instructions argument Lit.__init__ was called with
    not_found_instructions,  \* Lit.not_found_instructions, Unset while the attribute does not exist
    seed,                    \* the document Lit.__init__ parsed
    config,                  \* Lit.config: language |-> (phrase key |-> phrase)
    tables,                  \* the LitLanguage objects handed out by Lit.__getitem__, in order
    last,                    \* the latest call: its arguments and what it returned or raised
    compiled,                \* the results of compile_all() the caller holds, in order taken
    rebuilt,                 \* the latest result of langs_from_compiled_dict()
    callers                  \* the calls of concurrent callers: where each stands, and its locals

vars == <<config_path, nfi_arg, not_found_instructions, seed, config, tables, last,
          compiled, rebuilt, callers>>

-----------------------------------------------------------------------------
(* Bounds of the model *)

MaxTables == 2      \* LitLanguage objects a caller keeps hold of
MaxPairs == 1       \* length of the list given to an item assignment
MaxAssigned == 2    \* length of the lists of the assignments of SpecAssign
MaxSnapshots == 2   \* results of compile_all() a caller keeps hold of

-----------------------------------------------------------------------------
(* Inputs *)

Privet == "U+043F U+0440 U+0438 U+0432 U+0435 U+0442"

Keys == {"Hi everyone", "Goodbye", Privet}

Langs == {"DE", "FI"}

\* The languages given to an item assignment; "FI" is never configured.
AssignLangs == {"DE"}

\* What a call of translator.translate does: it returns the translation or it
\* raises (Fail stands for any exception of the provider).
Replies == {"translation", "exception"}

Fail == "<provider error>"

\* The (phrase, alias) pairs an item assignment draws its list from: one alias
\* is a key of its own, the other is a key the seed documents hold.
Pairs == {<<"Goodbye", "Goodbye">>, <<"Goodbye", "Hi everyone">>}

\* Item assignments of up to MaxAssigned pairs: two phrases under one alias
AssignPairs == {<<"Goodbye", "Hi everyone">>, <<"Hi everyone", "Hi everyone">>}

\* The replies to the calls of one assignment: none is read after the first
\* that raises
RepliesTo(phrases) ==
    {replies \in [1..Len(phrases) -> Replies] :
        \A i \in DOMAIN replies, j \in DOMAIN replies :
            (i < j /\ replies[i] = "exception") => replies[j] = "exception"}

EmptyDict == <<>>

Seeds ==
    { EmptyDict,
      [l \in {"DE"} |-> [k \in {"Hi everyone"} |-> "Hallo zusammen"]],
      [l \in {"DE"} |-> [k \in {"Hi everyone", "Goodbye"} |->
                            IF k = "Goodbye" THEN "" ELSE "Hallo zusammen"]] }

JsonString == "JSON_STRING"

ConfigFile == "./config.json"

\* Iteration over the characters of a str, for the keys of the model.
chars(key) ==
    CASE key = Privet -> <<"U+043F", "U+0440", "U+0438", "U+0432", "U+0435", "U+0442">>
      [] key = "Goodbye" -> <<"G", "o", "o", "d", "b", "y", "e">>
      [] key = "Hi everyone" -> <<"H", "i", " ", "e", "v", "e", "r", "y", "o", "n", "e">>

-----------------------------------------------------------------------------
(* Module-level data *)

NotFoundInstruction == {"TRANSLATE", "TRANSLITERATE", "NONE"}

Unset == "<no attribute>"

ru_to_en ==
    [c \in {"U+0430", "U+0431", "U+0432", "U+0433", "U+0434", "U+0435", "U+0451",
            "U+0436", "U+0437", "U+0438", "U+0439", "U+043A", "U+043B", "U+043C",
            "U+043D", "U+043E", "U+043F", "U+0440", "U+0441", "U+0442", "U+0443",
            "U+0444", "U+0445", "U+0446", "U+0447", "U+0448", "U+0449", "U+044A",
            "U+044B", "U+044C", "U+044D", "U+044E", "U+044F"} |->
        CASE c = "U+0430" -> "a"   [] c = "U+0431" -> "b"   [] c = "U+0432" -> "v"
          [] c = "U+0433" -> "g"   [] c = "U+0434" -> "d"   [] c = "U+0435" -> "e"
          [] c = "U+0451" -> "e"   [] c = "U+0436" -> "zh"  [] c = "U+0437" -> "z"
          [] c = "U+0438" -> "i"   [] c = "U+0439" -> "j"   [] c = "U+043A" -> "k"
          [] c = "U+043B" -> "l"   [] c = "U+043C" -> "m"   [] c = "U+043D" -> "n"
          [] c = "U+043E" -> "o"   [] c = "U+043F" -> "p"   [] c = "U+0440" -> "r"
          [] c = "U+0441" -> "s"   [] c = "U+0442" -> "t"   [] c = "U+0443" -> "u"
          [] c = "U+0444" -> "f"   [] c = "U+0445" -> "x"   [] c = "U+0446" -> "c"
          [] c = "U+0447" -> "ch"  [] c = "U+0448" -> "sh"  [] c = "U+0449" -> "ssh"
          [] c = "U+044A" -> ""    [] c = "U+044B" -> "y<U+0060>" [] c = "U+044C" -> ""
          [] c = "U+044D" -> "e<U+0060>" [] c = "U+044E" -> "yy"  [] c = "U+044F" -> "ya"]

-----------------------------------------------------------------------------
(* Outcomes of a call *)

NoExc == <<>>

None == "<None>"

Returned(v) == [res |-> "ok", exc |-> NoExc, val |-> v]

Raised(type, message) == [res |-> type, exc |-> message, val |-> ""]

-----------------------------------------------------------------------------
(* dict operations *)

\* d[k] = v
Put(d, k, v) == [x \in DOMAIN d \cup {k} |-> IF x = k THEN v ELSE d[x]]

\* d.update(e)
Update(d, e) == [x \in DOMAIN d \cup DOMAIN e |-> IF x \in DOMAIN e THEN e[x] ELSE d[x]]

-----------------------------------------------------------------------------
(* class LitLanguage *)

\* What self.phrases refers to: the dict config[name] held by the Lit object, or
\* the list [] that config.get(key, []) built for this one object.
ConfigDict == "config[name]"

NewList == "[]"

\* LitLanguage.__init__
LitLanguage(name, phrases, nfi) ==
    [name |-> name, phrases |-> phrases, not_found_instructions |-> nfi]

\* The keys and values self.phrases holds, cfg being the config of the Lit
\* object that built self.
phrases_of(cfg, self) == IF self.phrases = ConfigDict THEN cfg[self.name] ELSE EmptyDict

\* LitLanguage._translit
translit(key) == key

\* str.lower, for the language names of the model
lower(s) == CASE s = "DE" -> "de" [] s = "FI" -> "fi"

\* The provider is opaque: its translation of a phrase is a string that names
\* the target language and the phrase.
GoogleTranslator(target, phrase) == "<" \o target \o ": " \o phrase \o ">"

\* Lit._translate: reply is what translator.translate does on this call.
Lit_translate(lang, phrase, reply) ==
    IF reply = "exception" THEN Fail ELSE GoogleTranslator(lower(lang), phrase)

\* LitLanguage.__getitem__ with the test of line 81 left out: a strict miss
\* falls through to the return of line 93.
LitLanguage_getitem_NoStrictGate(self, phr, key, reply) ==
    LET nfi == self.not_found_instructions
        absent == key \notin DOMAIN phr
        quiet == [phrases |-> phr, prov |-> 0, tr |-> 0]
    IN  IF self.phrases = NewList
        THEN Raised("AttributeError", <<"list", "get">>) @@ quiet
        ELSE IF ~absent
        THEN Returned(phr[key]) @@ quiet
        ELSE IF nfi = "TRANSLITERATE"
        THEN Returned(translit(key)) @@ [phrases |-> phr, prov |-> 0, tr |-> 1]
        ELSE IF nfi = "TRANSLATE"
        THEN LET result == Lit_translate(self.name, key, reply)
             IN  IF result = Fail
                 THEN Raised("ProviderError", <<key, self.name>>)
                          @@ [phrases |-> phr, prov |-> 1, tr |-> 0]
                 ELSE Returned(result)
                          @@ [phrases |-> Put(phr, key, result), prov |-> 1, tr |-> 0]
        ELSE Returned(None) @@ quiet

\* LitLanguage.__getitem__ with the key entered before the provider is called:
\* a call that raises leaves an empty entry behind.
LitLanguage_getitem_EntryBeforeCall(self, phr, key, reply) ==
    LET nfi == self.not_found_instructions
        absent == key \notin DOMAIN phr
        quiet == [phrases |-> phr, prov |-> 0, tr |-> 0]
    IN  IF absent /\ nfi = "NONE"
        THEN Raised("KeyError", <<"Phrase", key, "not found in language", self.name>>)
                 @@ quiet
        ELSE IF self.phrases = NewList
        THEN Raised("AttributeError", <<"list", "get">>) @@ quiet
        ELSE IF ~absent
        THEN Returned(phr[key]) @@ quiet
        ELSE IF nfi = "TRANSLITERATE"
        THEN Returned(translit(key)) @@ [phrases |-> phr, prov |-> 0, tr |-> 1]
        ELSE IF nfi = "TRANSLATE"
        THEN LET result == Lit_translate(self.name, key, reply)
             IN  IF result = Fail
                 THEN Raised("ProviderError", <<key, self.name>>)
                          @@ [phrases |-> Put(phr, key, ""), prov |-> 1, tr |-> 0]
                 ELSE Returned(result)
                          @@ [phrases |-> Put(phr, key, result), prov |-> 1, tr |-> 0]
        ELSE Returned(None) @@ quiet

\* LitLanguage.__getitem__ with "not result" in place of "result is None": a
\* stored empty string counts as a miss.
LitLanguage_getitem_Truthy(self, phr, key, reply) ==
    LET nfi == self.not_found_instructions
        absent == key \notin DOMAIN phr
        empty == absent \/ phr[key] = ""
        quiet == [phrases |-> phr, prov |-> 0, tr |-> 0]
    IN  IF absent /\ nfi = "NONE"
        THEN Raised("KeyError", <<"Phrase", key, "not found in language", self.name>>)
                 @@ quiet
        ELSE IF self.phrases = NewList
        THEN Raised("AttributeError", <<"list", "get">>) @@ quiet
        ELSE IF ~empty
        THEN Returned(phr[key]) @@ quiet
        ELSE IF nfi = "TRANSLITERATE"
        THEN Returned(translit(key)) @@ [phrases |-> phr, prov |-> 0, tr |-> 1]
        ELSE IF nfi = "TRANSLATE"
        THEN LET result == Lit_translate(self.name, key, reply)
             IN  IF result = Fail
                 THEN Raised("ProviderError", <<key, self.name>>)
                          @@ [phrases |-> phr, prov |-> 1, tr |-> 0]
                 ELSE Returned(result)
                          @@ [phrases |-> Put(phr, key, result), prov |-> 1, tr |-> 0]
        ELSE Returned(phr[key]) @@ quiet

\* LitLanguage.__getitem__ on an object whose phrases hold phr.  No value of
\* phr is None, so "result is None" is "key is absent".  The outcome names the
\* phrases after the call and the calls made to the provider and to _translit.
LitLanguage_getitem(self, phr, key, reply) ==
    LET nfi == self.not_found_instructions
        absent == key \notin DOMAIN phr
        quiet == [phrases |-> phr, prov |-> 0, tr |-> 0]
    IN  IF absent /\ nfi = "NONE"
        THEN Raised("KeyError", <<"Phrase", key, "not found in language", self.name>>)
                 @@ quiet
        ELSE IF self.phrases = NewList
        THEN Raised("AttributeError", <<"list", "get">>) @@ quiet
        ELSE IF ~absent
        THEN Returned(phr[key]) @@ quiet
        ELSE IF nfi = "TRANSLITERATE"
        THEN Returned(translit(key)) @@ [phrases |-> phr, prov |-> 0, tr |-> 1]
        ELSE IF nfi = "TRANSLATE"
        THEN LET result == Lit_translate(self.name, key, reply)
             IN  IF result = Fail
                 THEN Raised("ProviderError", <<key, self.name>>)
                          @@ [phrases |-> phr, prov |-> 1, tr |-> 0]
                 ELSE Returned(result)
                          @@ [phrases |-> Put(phr, key, result), prov |-> 1, tr |-> 0]
        ELSE Returned(None) @@ quiet

\* LitLanguage.__contains__: the class sets no attribute auto_translit.
LitLanguage_contains(self, phr, key) ==
    IF key \in DOMAIN phr
    THEN [res |-> "ok", exc |-> NoExc, found |-> TRUE]
    ELSE [res |-> "AttributeError", exc |-> <<"LitLanguage", "auto_translit">>,
          found |-> FALSE]

-----------------------------------------------------------------------------
(* class Lit *)

\* A Lit object: self.config, and self.not_found_instructions (Unset while
\* the object has no such attribute).
Lit(cfg, nfi) == [config |-> cfg, not_found_instructions |-> nfi]

\* Lit.__getitem__ handing every table a container of its own instead of the
\* dict the config holds.
Lit_getitem_OwnContainer(self, key) ==
    IF self.not_found_instructions = Unset
    THEN [res |-> "AttributeError", exc |-> <<"Lit", "not_found_instructions">>,
          obj |-> <<>>]
    ELSE IF key \notin DOMAIN self.config /\ self.not_found_instructions = "NONE"
    THEN [res |-> "KeyError", exc |-> <<"Language", key, "not found in config file">>,
          obj |-> <<>>]
    ELSE [res |-> "ok", exc |-> NoExc,
          obj |-> <<LitLanguage(key, NewList, self.not_found_instructions)>>]

\* Lit.__getitem__: obj is <<the new LitLanguage>>, or <<>> when it raised.
\* The attribute is read by the test of line 203 when key is not in the
\* config and by the call of line 206 otherwise.
Lit_getitem(self, key) ==
    IF self.not_found_instructions = Unset
    THEN [res |-> "AttributeError", exc |-> <<"Lit", "not_found_instructions">>,
          obj |-> <<>>]
    ELSE IF key \notin DOMAIN self.config /\ self.not_found_instructions = "NONE"
    THEN [res |-> "KeyError", exc |-> <<"Language", key, "not found in config file">>,
          obj |-> <<>>]
    ELSE [res |-> "ok", exc |-> NoExc,
          obj |-> <<LitLanguage(key,
                                IF key \in DOMAIN self.config THEN ConfigDict ELSE NewList,
                                self.not_found_instructions)>>]

\* Lit.get: self[language][key]
Lit_get(self, key, language, reply) ==
    LET g == Lit_getitem(self, language)
    IN  IF g.res # "ok"
        THEN [res |-> g.res, exc |-> g.exc, val |-> "", prov |-> 0, tr |-> 0,
              obj |-> <<>>, phrases |-> EmptyDict]
        ELSE LET table == g.obj[1]
             IN  LitLanguage_getitem(table, phrases_of(self.config, table), key, reply)
                     @@ [obj |-> g.obj]

\* The loop of Lit.__setitem__ from pair i on: res_dict so far, replies[i] what
\* the provider does for pair i.  ok is FALSE when a _translate call raised.
RECURSIVE translate_pairs(_, _, _, _, _)
translate_pairs(key, phrases, replies, i, res_dict) ==
    IF i > Len(phrases)
    THEN [ok |-> TRUE, res_dict |-> res_dict, prov |-> i - 1]
    ELSE LET result == Lit_translate(key, phrases[i][1], replies[i])
         IN  IF result = Fail
             THEN [ok |-> FALSE, res_dict |-> res_dict, prov |-> i]
             ELSE translate_pairs(key, phrases, replies, i + 1,
                                  Put(res_dict, phrases[i][2], result))

\* Lit.__setitem__ assigning res_dict over the phrases the language had.
Lit_setitem_Replace(self, key, phrases, replies) ==
    LET t == translate_pairs(key, phrases, replies, 1, EmptyDict)
        cfg == self.config
    IN  IF ~t.ok
        THEN [res |-> "ProviderError", config |-> cfg, prov |-> t.prov]
        ELSE [res |-> "ok", prov |-> t.prov, config |-> Put(cfg, key, t.res_dict)]

\* Lit.__setitem__ writing each translation into the config as it arrives.
Lit_setitem_WriteAsTranslated(self, key, phrases, replies) ==
    LET t == translate_pairs(key, phrases, replies, 1, EmptyDict)
        cfg == self.config
    IN  [res |-> IF t.ok THEN "ok" ELSE "ProviderError", prov |-> t.prov,
         config |-> IF key \in DOMAIN cfg
                    THEN [cfg EXCEPT ![key] = Update(cfg[key], t.res_dict)]
                    ELSE Put(cfg, key, t.res_dict)]

\* Lit.__setitem__: the config after the call, and the calls made.
Lit_setitem(self, key, phrases, replies) ==
    LET t == translate_pairs(key, phrases, replies, 1, EmptyDict)
        cfg == self.config
    IN  IF ~t.ok
        THEN [res |-> "ProviderError", config |-> cfg, prov |-> t.prov]
        ELSE [res |-> "ok", prov |-> t.prov,
              config |-> IF key \in DOMAIN cfg
                         THEN [cfg EXCEPT ![key] = Update(cfg[key], t.res_dict)]
                         ELSE Put(cfg, key, t.res_dict)]

\* Lit.__init__: json_as_str given, the document is parsed and the attribute
\* not_found_instructions is never set; otherwise the file is read.
Lit_init(path, nfi, document) ==
    [config_path |-> path,
     config |-> document,
     not_found_instructions |-> IF path # JsonString THEN nfi ELSE Unset]

-----------------------------------------------------------------------------
(* The state machine *)

\* The Lit object of the program
lit == Lit(config, not_found_instructions)

\* The record of a call: retry says that it repeats the call before it (the
\* same operation on the same table for the same key), which the provider
\* failed.
Call(op, lang, key, tbl, before) ==
    [op |-> op, lang |-> lang, key |-> key, tbl |-> tbl, phrases |-> <<>>,
     res |-> "ok", exc |-> NoExc, val |-> "", found |-> FALSE, prov |-> 0, tr |-> 0,
     retry |-> /\ before.res = "ProviderError"
               /\ before.op = op
               /\ before.tbl = tbl
               /\ before.lang = lang
               /\ before.key = key]

NoCall ==
    [op |-> "init", lang |-> "", key |-> "", tbl |-> 0, phrases |-> <<>>,
     res |-> "ok", exc |-> NoExc, val |-> "", found |-> FALSE, prov |-> 0, tr |-> 0,
     retry |-> FALSE]

\* Sequences of length 0..n over S
SeqsUpTo(S, n) == UNION {[1..m -> S] : m \in 0..n}

\* The concurrent callers of SpecConc; in the other specifications both stay
\* Idle, the calls there being made one after another
Callers == {"A", "B"}
Idle == [pc |-> "idle", lang |-> "", key |-> "", tbl |-> 0, result |-> None, calls |-> <<>>]

\* registry = Lit(...)
Built ==
    \E path \in {JsonString, ConfigFile}, nfi \in NotFoundInstruction, document \in Seeds :
        LET l == Lit_init(path, nfi, document)
        IN  /\ config_path = l.config_path
            /\ nfi_arg = nfi
            /\ not_found_instructions = l.not_found_instructions
            /\ seed = document
            /\ config = l.config
            /\ tables = <<>>
            /\ last = NoCall

Init ==
    /\ Built
    /\ compiled = <<>>
    /\ rebuilt = <<>>
    /\ callers = [c \in Callers |-> Idle]

\* table = registry[lang]
GetItem(lang) ==
    LET o == Lit_getitem(lit, lang)
    IN  /\ o.res = "ok" => Len(tables) < MaxTables
        /\ tables' = tables \o o.obj
        /\ last' = [Call("getitem", lang, "", IF o.res = "ok" THEN Len(tables) + 1 ELSE 0, last)
                        EXCEPT !.res = o.res, !.exc = o.exc]
        /\ UNCHANGED <<config_path, nfi_arg, not_found_instructions, seed, config,
                       compiled, rebuilt, callers>>

\* tables[i][key]
Resolve(i, key, reply) ==
    LET self == tables[i]
        o == LitLanguage_getitem(self, phrases_of(config, self), key, reply)
    IN  /\ o.prov = 0 => reply = "exception"      \* the reply is read only by a provider call
        /\ config' = IF self.phrases = ConfigDict
                     THEN [config EXCEPT ![self.name] = o.phrases]
                     ELSE config
        /\ last' = [Call("resolve", self.name, key, i, last)
                        EXCEPT !.res = o.res, !.exc = o.exc, !.val = o.val,
                               !.prov = o.prov, !.tr = o.tr]
        /\ UNCHANGED <<config_path, nfi_arg, not_found_instructions, seed, tables,
                       compiled, rebuilt, callers>>

\* registry.get(key, lang): the LitLanguage it builds is dropped on return
Lookup(key, lang, reply) ==
    LET o == Lit_get(lit, key, lang, reply)
    IN  /\ o.prov = 0 => reply = "exception"      \* the reply is read only by a provider call
        /\ config' = IF o.obj # <<>> /\ o.obj[1].phrases = ConfigDict
                     THEN [config EXCEPT ![lang] = o.phrases]
                     ELSE config
        /\ last' = [Call("lookup", lang, key, 0, last)
                        EXCEPT !.res = o.res, !.exc = o.exc, !.val = o.val,
                               !.prov = o.prov, !.tr = o.tr]
        /\ UNCHANGED <<config_path, nfi_arg, not_found_instructions, seed, tables,
                       compiled, rebuilt, callers>>

\* key in tables[i]
Contains(i, key) ==
    LET self == tables[i]
        o == LitLanguage_contains(self, phrases_of(config, self), key)
    IN  /\ last' = [Call("contains", self.name, key, i, last)
                        EXCEPT !.res = o.res, !.exc = o.exc, !.found = o.found]
        /\ UNCHANGED <<config_path, nfi_arg, not_found_instructions, seed, config, tables,
                       compiled, rebuilt, callers>>

\* registry[lang] = phrases
SetItem(lang, phrases, replies) ==
    LET o == Lit_setitem(lit, lang, phrases, replies)
    IN  /\ config' = o.config
        /\ last' = [Call("setitem", lang, "", 0, last)
                        EXCEPT !.phrases = phrases, !.res = o.res, !.prov = o.prov]
        /\ UNCHANGED <<config_path, nfi_arg, not_found_instructions, seed, tables,
                       compiled, rebuilt, callers>>

Next ==
    \/ \E lang \in Langs : GetItem(lang)
    \/ \E i \in 1..Len(tables), key \in Keys, reply \in Replies : Resolve(i, key, reply)
    \/ \E key \in Keys, lang \in Langs, reply \in Replies : Lookup(key, lang, reply)
    \/ \E i \in 1..Len(tables), key \in Keys : Contains(i, key)
    \/ \E lang \in AssignLangs, phrases \in SeqsUpTo(Pairs, MaxPairs) :
           \E replies \in [1..Len(phrases) -> Replies] : SetItem(lang, phrases, replies)

Spec == Init /\ [][Next]_vars

\* Item assignments of several pairs to either language, among lookups that
\* memoize
NextAssign ==
    \/ \E lang \in Langs, phrases \in SeqsUpTo(AssignPairs, MaxAssigned) :
           \E replies \in RepliesTo(phrases) : SetItem(lang, phrases, replies)
    \/ \E lang \in Langs, reply \in Replies : Lookup(Privet, lang, reply)

\* Registries built with the default of the not_found_instructions parameter
InitAssign == Init /\ nfi_arg = "TRANSLATE"

SpecAssign == InitAssign /\ [][NextAssign]_vars

-----------------------------------------------------------------------------
(* Two callers of one registry, each running                               *)
(*     table = registry[lang]; table[key]; table[key]                      *)
(* for the same lang and key, their calls interleaved at the reads and     *)
(* writes of the config (lines 203, 206, 81, 84, 91) and at the provider   *)
(* call (line 90), where a caller is suspended.  The source takes no lock. *)
(* A caller begins its second table[key] when both have left their first.  *)

\* The outcome of a call: res, the value returned, the provider calls made
Outcome(res, val, prov) == [res |-> res, val |-> val, prov |-> prov]

\* The caller after a table[key] that ended with outcome
Finish(me, outcome) ==
    [me EXCEPT !.calls = Append(@, outcome),
               !.result = None,
               !.pc = IF Len(me.calls) = 0 THEN "resolve_81" ELSE "done"]

ConcFrame == UNCHANGED <<config_path, nfi_arg, not_found_instructions, seed, last,
                         compiled, rebuilt>>

\* Both callers have called registry[lang]
InitConc ==
    /\ Built
    /\ compiled = <<>>
    /\ rebuilt = <<>>
    /\ \E lang \in Langs, key \in Keys :
           callers = [c \in Callers |->
                         [Idle EXCEPT !.pc = "getitem_203", !.lang = lang, !.key = key]]

\* Lit.__getitem__, line 203: the test, and the raise of line 204
Test203(c) ==
    LET me == callers[c]
        o == Lit_getitem(lit, me.lang)
    IN  /\ me.pc = "getitem_203"
        /\ callers' = [callers EXCEPT ![c] =
               IF o.res = "ok"
               THEN [me EXCEPT !.pc = "getitem_206"]
               ELSE [me EXCEPT !.pc = "done", !.calls = <<Outcome(o.res, "", 0)>>]]
        /\ UNCHANGED <<config, tables>>
        /\ ConcFrame

\* Lit.__getitem__, line 206: the LitLanguage is constructed and returned
Build206(c) ==
    LET me == callers[c]
        o == Lit_getitem(lit, me.lang)
    IN  /\ me.pc = "getitem_206"
        /\ tables' = tables \o o.obj
        /\ callers' = [callers EXCEPT ![c] =
               [me EXCEPT !.pc = "resolve_81", !.tbl = Len(tables) + 1]]
        /\ UNCHANGED config
        /\ ConcFrame

\* LitLanguage.__getitem__, line 81: the test of the strict policy
Gate81(c) ==
    LET me == callers[c]
        self == tables[me.tbl]
        phr == phrases_of(config, self)
    IN  /\ me.pc = "resolve_81"
        /\ Len(me.calls) = 1 => \A d \in Callers : callers[d].calls # <<>>
        /\ callers' = [callers EXCEPT ![c] =
               IF me.key \notin DOMAIN phr /\ self.not_found_instructions = "NONE"
               THEN Finish(me, Outcome("KeyError", "", 0))
               ELSE [me EXCEPT !.pc = "resolve_84"]]
        /\ UNCHANGED <<config, tables>>
        /\ ConcFrame

\* The caller after line 84 read result, lines 86-89 and 93 run: it returns
\* the phrase or the key, or it has called the provider
AfterRead(me, self, result) ==
    IF result = None /\ self.not_found_instructions = "TRANSLITERATE"
    THEN Finish(me, Outcome("ok", translit(me.key), 0))
    ELSE IF result = None /\ self.not_found_instructions = "TRANSLATE"
    THEN [me EXCEPT !.pc = "resolve_90"]
    ELSE Finish(me, Outcome("ok", result, 0))

\* Line 84 writing an empty entry for the key before the provider is called
Read84_Placeholder(c) ==
    LET me == callers[c]
        self == tables[me.tbl]
        phr == phrases_of(config, self)
        result == IF me.key \in DOMAIN phr THEN phr[me.key] ELSE None
    IN  /\ me.pc = "resolve_84"
        /\ callers' = [callers EXCEPT ![c] =
               IF self.phrases = NewList
               THEN Finish(me, Outcome("AttributeError", "", 0))
               ELSE AfterRead(me, self, result)]
        /\ config' = IF self.phrases = ConfigDict /\ result = None
                     THEN [config EXCEPT ![self.name] = Put(@, me.key, "")]
                     ELSE config
        /\ UNCHANGED tables
        /\ ConcFrame

\* LitLanguage.__getitem__, line 84: result = self.phrases.get(key), and the
\* branches of lines 86-89 on it
Read84(c) ==
    LET me == callers[c]
        self == tables[me.tbl]
        phr == phrases_of(config, self)
        result == IF me.key \in DOMAIN phr THEN phr[me.key] ELSE None
    IN  /\ me.pc = "resolve_84"
        /\ callers' = [callers EXCEPT ![c] =
               IF self.phrases = NewList
               THEN Finish(me, Outcome("AttributeError", "", 0))
               ELSE AfterRead(me, self, result)]
        /\ UNCHANGED <<config, tables>>
        /\ ConcFrame

\* Line 90: the provider call returns, or raises (a cancellation of the
\* suspended caller is raised at the same place)
Reply90(c, reply) ==
    LET me == callers[c]
        self == tables[me.tbl]
        result == Lit_translate(self.name, me.key, reply)
    IN  /\ me.pc = "resolve_90"
        /\ callers' = [callers EXCEPT ![c] =
               IF result = Fail
               THEN Finish(me, Outcome("ProviderError", "", 1))
               ELSE [me EXCEPT !.pc = "resolve_91", !.result = result]]
        /\ UNCHANGED <<config, tables>>
        /\ ConcFrame

\* Lines 91 and 93: self.phrases[key] = result; return result
Store91(c) ==
    LET me == callers[c]
        self == tables[me.tbl]
    IN  /\ me.pc = "resolve_91"
        /\ config' = [config EXCEPT ![self.name] = Put(@, me.key, me.result)]
        /\ callers' = [callers EXCEPT ![c] = Finish(me, Outcome("ok", me.result, 1))]
        /\ UNCHANGED tables
        /\ ConcFrame

NextConc ==
    \E c \in Callers :
        \/ Test203(c)
        \/ Build206(c)
        \/ Gate81(c)
        \/ Read84(c)
        \/ \E reply \in Replies : Reply90(c, reply)
        \/ Store91(c)

SpecConc == InitConc /\ [][NextConc]_vars

-----------------------------------------------------------------------------
(* compile_all and langs_from_compiled_dict, which test.py imports and     *)
(* calls and __init__.py does not define: modelled from the specification  *)
(* of the registry snapshot.                                               *)

\* What a snapshot record holds its phrases in: a copy it owns, or else the
\* container of the table it was exported from
Copy == "copy"

\* A record that keeps the table's own container: a view of it
exportSnapshot_View(self, phr) ==
    [name |-> self.name, container |-> self.phrases, phrases |-> EmptyDict]

\* The snapshot of one table: its name and a copy of what its phrases held
exportSnapshot(self, phr) == [name |-> self.name, container |-> Copy, phrases |-> phr]

\* The phrases a snapshot record shows, cfg being the config at the time it
\* is read
record_phrases(cfg, rec) ==
    IF rec.container = Copy
    THEN rec.phrases
    ELSE phrases_of(cfg, [name |-> rec.name, phrases |-> rec.container])

\* A snapshot as it reads at a time: the sequence of (name, phrases)
read_snapshot(cfg, snapshot) ==
    [i \in DOMAIN snapshot |->
        [name |-> snapshot[i].name, phrases |-> record_phrases(cfg, snapshot[i])]]

\* The positions 1..n ordered by the name of the table at each
ByName(constructed) ==
    LET n == Len(constructed)
        before(i, j) == \/ constructed[i].name = "DE" /\ constructed[j].name # "DE"
                        \/ constructed[i].name = constructed[j].name /\ i < j
    IN  [r \in 1..n |->
            CHOOSE i \in 1..n : Cardinality({j \in 1..n : before(j, i)}) = r - 1]

\* compile_all listing the tables by name
compile_all_ByName(cfg, constructed) ==
    [r \in 1..Len(constructed) |->
        LET self == constructed[ByName(constructed)[r]]
        IN  exportSnapshot(self, phrases_of(cfg, self))]

\* Lit.compile_all: one record for each table __getitem__ constructed, in
\* the order constructed
compile_all(cfg, constructed) ==
    [i \in 1..Len(constructed) |->
        exportSnapshot(constructed[i], phrases_of(cfg, constructed[i]))]

\* langs_from_compiled_dict dropping the phrases that are empty strings
langs_from_compiled_dict_DropsEmpty(snapshot, default) ==
    [i \in DOMAIN snapshot |->
        LET phr == snapshot[i].phrases
            kept == {k \in DOMAIN phr : phr[k] # ""}
        IN  LitLanguage(snapshot[i].name, [k \in kept |-> phr[k]], default)]

\* langs_from_compiled_dict: a table for each record of a snapshot read, with
\* the record's phrases as its own dict and the policy the caller gives
langs_from_compiled_dict(snapshot, default) ==
    [i \in DOMAIN snapshot |->
        LitLanguage(snapshot[i].name, snapshot[i].phrases, default)]

\* snapshot = registry.compile_all()
CompileAll ==
    /\ Len(compiled) < MaxSnapshots
    /\ compiled' = Append(compiled, compile_all(config, tables))
    /\ last' = Call("compile_all", "", "", 0, last)
    /\ UNCHANGED <<config_path, nfi_arg, not_found_instructions, seed, config, tables,
                   rebuilt, callers>>

\* langs_from_compiled_dict(registry.compile_all()), as test.py line 14, with
\* the policy named default
Rebuild(default) ==
    /\ rebuilt' = langs_from_compiled_dict(read_snapshot(config, compile_all(config, tables)),
                                           default)
    /\ last' = [Call("langs_from_compiled_dict", "", "", 0, last) EXCEPT !.val = default]
    /\ UNCHANGED <<config_path, nfi_arg, not_found_instructions, seed, config, tables,
                   compiled, callers>>

\* The keys resolved among snapshots: one the seeds leave out, one a seed
\* maps to the empty string
SnapKeys == {"Goodbye", Privet}

NextSnap ==
    \/ \E lang \in Langs : GetItem(lang)
    \/ \E i \in 1..Len(tables), key \in SnapKeys, reply \in Replies : Resolve(i, key, reply)
    \/ CompileAll

NextRebuild ==
    \/ \E lang \in Langs : GetItem(lang)
    \/ \E i \in 1..Len(tables), key \in SnapKeys, reply \in Replies : Resolve(i, key, reply)
    \/ \E default \in NotFoundInstruction : Rebuild(default)

SpecRebuild == Init /\ [][NextRebuild]_vars

SpecSnap == Init /\ [][NextSnap]_vars

-----------------------------------------------------------------------------
(* Vocabulary of the claims *)

\* The phrases of a language as the registry holds them: no entry for a
\* language the config does not have.
PhrasesOfLang(cfg, lang) == IF lang \in DOMAIN cfg THEN cfg[lang] ELSE EmptyDict

\* last is a resolve of a key, through a table or through the registry.
IsResolve(call) == call.op \in {"resolve", "lookup"}

\* The table a call went through, for the calls made on a table.
TableOf(call) == tables[call.tbl]

RECURSIVE Concat(_)
Concat(strs) == IF strs = <<>> THEN "" ELSE Head(strs) \o Concat(Tail(strs))

\* The substitution-table image of a key: each character replaced by its
\* entry of ru_to_en, or kept when it has none.
Substituted(key) ==
    Concat([i \in 1..Len(chars(key)) |->
               LET c == chars(key)[i]
               IN  IF c \in DOMAIN ru_to_en THEN ru_to_en[c] ELSE c])

\* The registry a file holding the same document builds: it has the miss
\* policy it was given.
FileBuilt == Lit(config, nfi_arg)

-----------------------------------------------------------------------------
(* C1..C10 *)

\* C1: lookup(K, L) of a key K the seed config holds for language L returns the
\* seeded value, whatever the policy and whatever was called before, and calls
\* neither the provider nor the transliteration.
C1_SeededLookupReturnsSeed ==
    (/\ last.op = "lookup"
     /\ last.lang \in DOMAIN seed
     /\ last.key \in DOMAIN seed[last.lang])
        => /\ last.res = "ok"
           /\ last.val = seed[last.lang][last.key]
           /\ last.prov = 0
           /\ last.tr = 0

\* C2: under the TRANSLATE policy a resolve of a key absent from the language's
\* phrases calls the provider exactly once and stores what it returned under
\* the key; a resolve of a key the phrases hold returns the stored value and
\* calls the provider zero times, through whichever table of the language.
C2_TranslateMemoizes ==
    [][ (IsResolve(last') /\ not_found_instructions = "TRANSLATE")
            => LET K == last'.key
                   L == last'.lang
               IN  IF K \notin DOMAIN PhrasesOfLang(config, L)
                   THEN /\ last'.prov = 1
                        /\ last'.res \in {"ok", "ProviderError"}
                        /\ last'.res = "ok"
                               => /\ K \in DOMAIN PhrasesOfLang(config', L)
                                  /\ config'[L][K] = last'.val
                   ELSE /\ last'.prov = 0
                        /\ last'.res = "ok"
                        /\ last'.val = config[L][K]
                        /\ config' = config ]_vars

C4_OneTablePerName ==
    \A i, j \in 1..Len(tables) : tables[i].name = tables[j].name => i = j

\* C5: under the TRANSLITERATE policy a resolve of a key absent from the table
\* returns, gives the output the resolve before it gave for that key, and
\* leaves the phrases as they were; contains of that key returns False.
C5_TransliterateNotStored ==
    [][ \A i \in 1..Len(tables) :
          (/\ last'.op \in {"resolve", "contains"}
           /\ last'.tbl = i
           /\ tables[i].not_found_instructions = "TRANSLITERATE"
           /\ last'.key \notin DOMAIN phrases_of(config, tables[i]))
              => /\ config' = config
                 /\ last'.res = "ok"
                 /\ last'.op = "contains" => last'.found = FALSE
                 /\ (/\ last'.op = "resolve" /\ last.op = "resolve"
                     /\ last.key = last'.key /\ last.lang = last'.lang)
                        => last'.val = last.val ]_vars

\* C6: what a transliterating resolve returns is the concatenation of the
\* substitution-table images of the key's characters.
C6_TranslitIsSubstitution ==
    (IsResolve(last) /\ last.tr = 1)
        => /\ last.res = "ok"
           /\ last.val = Substituted(last.key)

\* C7: contains(key) never raises and returns True exactly when the key is in
\* the table's phrases.
C7_ContainsIsMembership ==
    last.op = "contains"
        => /\ last.res = "ok"
           /\ last.found = (last.key \in DOMAIN phrases_of(config, TableOf(last)))

\* C8: under the TRANSLATE policy a resolve whose provider call raises
\* propagates the exception and leaves every phrases as it was, the key still
\* absent; the same resolve made again right after it calls the provider
\* again, and when that call returns the value is stored under the key, all
\* other entries as before, and returned.
C8_ProviderFailureNotMemoized ==
    [][ (IsResolve(last') /\ not_found_instructions = "TRANSLATE")
            => LET K == last'.key
                   L == last'.lang
               IN  /\ last'.res = "ProviderError"
                          => /\ config' = config
                             /\ K \notin DOMAIN PhrasesOfLang(config', L)
                             /\ last'.prov = 1
                             /\ last'.exc = <<K, L>>
                   /\ last'.retry
                          => /\ last'.prov = 1
                             /\ last'.res \in {"ok", "ProviderError"}
                             /\ last'.res = "ok"
                                    => /\ last'.val = GoogleTranslator(lower(L), K)
                                       /\ config' = [config EXCEPT
                                              ![L] = Put(config[L], K, last'.val)] ]_vars

C8_Witness ==
    /\ not_found_instructions = "TRANSLATE"
    /\ IsResolve(last)
    /\ last.retry
    /\ last.res = "ok"
    /\ last.prov = 1
    /\ config[last.lang][last.key] = last.val

\* C9: with a miss policy set, the get of a language the config never held
\* returns a table whose phrases is an empty map, and a resolve of a key for
\* that language goes by the policy: KeyError for the key and the language
\* under NONE, one provider call under TRANSLATE, the transliteration under
\* TRANSLITERATE.
C9_UnseededLanguageGetsEmptyTable ==
    (/\ not_found_instructions \in NotFoundInstruction
     /\ last.lang \in Langs
     /\ last.lang \notin DOMAIN seed
     /\ last.lang \notin DOMAIN config)
        => /\ last.op = "getitem"
               => /\ last.res = "ok"
                  /\ TableOf(last).phrases # NewList
           /\ IsResolve(last)
               => CASE not_found_instructions = "NONE" ->
                         /\ last.res = "KeyError"
                         /\ last.exc = <<"Phrase", last.key, "not found in language",
                                         last.lang>>
                    [] not_found_instructions = "TRANSLATE" ->
                         /\ last.prov = 1
                         /\ last.res \in {"ok", "ProviderError"}
                    [] not_found_instructions = "TRANSLITERATE" ->
                         /\ last.res = "ok"
                         /\ last.tr = 1

\* C10: a registry built from a JSON string answers every get and lookup as
\* the registry built from a file holding that document with the same policy
\* does in the same state: same result, same exception, same phrases after.
C10_JsonAndFileInterchangeable ==
    [][ /\ last'.op = "getitem"
            => LET o == Lit_getitem(FileBuilt, last'.lang)
               IN  /\ last'.res = o.res
                   /\ last'.exc = o.exc
        /\ last'.op = "lookup"
            => \E reply \in Replies :
                   LET o == Lit_get(FileBuilt, last'.key, last'.lang, reply)
                   IN  /\ last'.res = o.res
                       /\ last'.exc = o.exc
                       /\ last'.val = o.val
                       /\ o.obj # <<>> /\ o.obj[1].phrases = ConfigDict
                              => config' = [config EXCEPT ![last'.lang] = o.phrases]
                       /\ ~(o.obj # <<>> /\ o.obj[1].phrases = ConfigDict)
                              => config' = config ]_vars

-----------------------------------------------------------------------------
(* C15, C16, C18 *)

\* What a phrases map may hold for a key: the phrase the seed document gave
\* it, or a translation the provider returned for this language.
ResolvedValues(lang, key) ==
    {seed[l][k] : <<l, k>> \in {<<lang, key>>} \cap
                                {<<l2, k2>> \in Langs \X Keys :
                                    l2 \in DOMAIN seed /\ k2 \in DOMAIN seed[l2]}}
        \cup {GoogleTranslator(lower(lang), phrase) : phrase \in Keys}

\* C15: every key a phrases map holds maps to a string that was seeded or that
\* the provider returned, never None or a placeholder; and a stored empty
\* string is a hit: resolve returns "" without a provider or transliteration
\* call and changes nothing, and contains is True.
C15_StoredValuesAreResolved ==
    [][ /\ \A l \in DOMAIN config' : \A k \in DOMAIN config'[l] :
              /\ config'[l][k] \notin {None, Fail}
              /\ config'[l][k] \in ResolvedValues(l, k)
        /\ \A i \in 1..Len(tables) :
              (/\ last'.op \in {"resolve", "contains"}
               /\ last'.tbl = i
               /\ last'.key \in DOMAIN phrases_of(config, tables[i])
               /\ phrases_of(config, tables[i])[last'.key] = "")
                  => /\ last'.res = "ok"
                     /\ config' = config
                     /\ last'.op = "resolve"
                            => (last'.val = "" /\ last'.prov = 0 /\ last'.tr = 0)
                     /\ last'.op = "contains" => last'.found ]_vars

C15_Witness ==
    /\ last.op = "resolve"
    /\ last.res = "ok"
    /\ last.val = ""
    /\ last.prov = 0
    /\ last.key \in DOMAIN config[last.lang]
    /\ config[last.lang][last.key] = ""
    /\ not_found_instructions = "TRANSLATE"

\* The (language, key) entries a config holds
Entries(cfg) == {<<l, k>> \in Langs \X Keys : l \in DOMAIN cfg /\ k \in DOMAIN cfg[l]}

\* C16: no call removes a language or a key from the config, and an entry is
\* added only by a resolve under TRANSLATE whose provider call returned (the
\* one entry it asked for) or by an item assignment that returned.
C16_PhrasesGrowMonotonically ==
    [][ /\ DOMAIN config \subseteq DOMAIN config'
        /\ Entries(config) \subseteq Entries(config')
        /\ Entries(config') # Entries(config)
              => \/ /\ last'.op = "setitem"
                    /\ last'.res = "ok"
                    /\ \A e \in Entries(config') \ Entries(config) : e[1] = last'.lang
                 \/ /\ IsResolve(last')
                    /\ not_found_instructions = "TRANSLATE"
                    /\ last'.res = "ok"
                    /\ last'.prov = 1
                    /\ Entries(config') \ Entries(config) = {<<last'.lang, last'.key>>} ]_vars

C16_Witness ==
    /\ last.op = "setitem"
    /\ last.res = "ok"
    /\ last.lang \in DOMAIN seed
    /\ DOMAIN seed[last.lang] \subseteq DOMAIN config[last.lang]
    /\ DOMAIN seed[last.lang] # DOMAIN config[last.lang]

\* C18: every table the registry returns for a language of the seed config
\* holds the dict the config holds for it: a key that dict holds is returned
\* by resolve without a provider call, and found by contains, through each
\* of them.
C18_SeededTablesShareConfigDict ==
    [][ /\ \A i \in 1..Len(tables') :
              tables'[i].name \in DOMAIN seed => tables'[i].phrases = ConfigDict
        /\ \A i \in 1..Len(tables) :
              (/\ last'.op \in {"resolve", "contains"}
               /\ last'.tbl = i
               /\ tables[i].name \in DOMAIN seed
               /\ last'.key \in DOMAIN config[tables[i].name])
                  => /\ last'.res = "ok"
                     /\ last'.op = "resolve"
                            => (last'.val = config[tables[i].name][last'.key]
                                    /\ last'.prov = 0)
                     /\ last'.op = "contains" => last'.found ]_vars

C18_Witness ==
    /\ Len(tables) = 2
    /\ tables[1].name = "DE" /\ tables[2].name = "DE"
    /\ "DE" \in DOMAIN seed
    /\ last.op = "resolve"
    /\ last.tbl = 2
    /\ last.key = Privet
    /\ last.res = "ok"
    /\ last.prov = 0
    /\ last.val = GoogleTranslator("de", Privet)

-----------------------------------------------------------------------------
(* C19 *)

\* The aliases an assigned list names, and the phrase of the last pair that
\* names an alias
Aliases(phrases) == {phrases[i][2] : i \in DOMAIN phrases}
LastPhrase(phrases, alias) ==
    phrases[CHOOSE i \in DOMAIN phrases :
                /\ phrases[i][2] = alias
                /\ \A j \in DOMAIN phrases : j > i => phrases[j][2] # alias][1]

\* What an item assignment of phrases to lang leaves outside the assigned
\* aliases, and what a failed one leaves
AssignFrame(lang, phrases) ==
    /\ last'.res \in {"ok", "ProviderError"}
    /\ last'.res = "ok" =>
         /\ last'.prov = Len(phrases)
         /\ DOMAIN config' = DOMAIN config \cup {lang}
         /\ \A l \in DOMAIN config : l # lang => config'[l] = config[l]
         /\ DOMAIN config'[lang] =
                Aliases(phrases) \cup (IF lang \in DOMAIN config THEN DOMAIN config[lang] ELSE {})
         /\ lang \in DOMAIN config =>
                \A k \in DOMAIN config[lang] \ Aliases(phrases) :
                    config'[lang][k] = config[lang][k]
    /\ last'.res = "ProviderError" =>
         /\ last'.prov \in 1..Len(phrases)
         /\ config' = config

\* C19 as stated: registry[L] = pairs calls the provider once per pair and
\* then, for every pair, phrases of L maps the alias to the translation of the
\* pair's phrase; other keys of L and other languages keep their phrases, a
\* new L holds exactly the aliases, and a failed provider call leaves the
\* config unchanged.
C19_EveryPairIsStored ==
    [][ last'.op = "setitem" =>
          /\ AssignFrame(last'.lang, last'.phrases)
          /\ last'.res = "ok" =>
                \A i \in DOMAIN last'.phrases :
                    config'[last'.lang][last'.phrases[i][2]]
                        = GoogleTranslator(lower(last'.lang), last'.phrases[i][1]) ]_vars

\* C19 amended: as above, but an alias that several pairs name maps to the
\* translation of the phrase of the last pair naming it.
C19_LastPairOfAnAliasIsStored ==
    [][ last'.op = "setitem" =>
          /\ AssignFrame(last'.lang, last'.phrases)
          /\ last'.res = "ok" =>
                \A alias \in Aliases(last'.phrases) :
                    config'[last'.lang][alias]
                        = GoogleTranslator(lower(last'.lang),
                                           LastPhrase(last'.phrases, alias)) ]_vars

\* Two pairs under one alias assigned to a language that lookups had filled
C19_Witness ==
    /\ last.op = "setitem"
    /\ last.res = "ok"
    /\ last.prov = 2
    /\ last.lang = "FI"
    /\ last.phrases = <<<<"Hi everyone", "Hi everyone">>, <<"Goodbye", "Hi everyone">>>>
    /\ "DE" \in DOMAIN config
    /\ Privet \in DOMAIN config["DE"]
    /\ Privet \in DOMAIN config["FI"]
    /\ config["FI"]["Hi everyone"] = GoogleTranslator("fi", "Goodbye")

-----------------------------------------------------------------------------
(* C12, C13, C14 *)

\* The names of the records of a snapshot, and of the tables constructed
Names(records) == [i \in DOMAIN records |-> records[i].name]
IsPrefix(short, long) ==
    /\ Len(short) <= Len(long)
    /\ \A i \in DOMAIN short : short[i] = long[i]

-----------------------------------------------------------------------------
(* C11, C17 *)

\* The callers that hold a table
Holding == {c \in Callers : callers[c].tbl # 0}

\* C11: of two callers that concurrently ask the registry for one language,
\* at most one constructs a table: one table per name exists, both hold that
\* table, and a key one of them memoized is a key of the other's phrases.
C11_ConcurrentGetInstallsOneTable ==
    /\ \A i \in 1..Len(tables), j \in 1..Len(tables) :
           tables[i].name = tables[j].name => i = j
    /\ \A a \in Holding, b \in Holding :
           /\ callers[a].tbl = callers[b].tbl
           /\ \A n \in DOMAIN callers[a].calls :
                  (callers[a].calls[n].res = "ok" /\ callers[a].calls[n].prov = 1)
                      => callers[a].key \in DOMAIN phrases_of(config, tables[callers[b].tbl])

\* The language and key the two callers resolve, and whether the key is
\* absent from what the registry was built with, under the TRANSLATE policy
TheLang == callers[CHOOSE c \in Callers : TRUE].lang
TheKey == callers[CHOOSE c \in Callers : TRUE].key
AbsentUnderTranslate ==
    /\ not_found_instructions = "TRANSLATE"
    /\ TheKey \notin DOMAIN PhrasesOfLang(seed, TheLang)
BothLeftFirst == \A c \in Callers : Len(callers[c].calls) >= 1 /\ callers[c].tbl # 0

\* The key is absent or mapped to the whole of the provider's translation,
\* and a step that changes the config is the store of line 91 by a caller
\* whose provider call returned
NeverTorn ==
    /\ TheKey \in DOMAIN PhrasesOfLang(config', TheLang) =>
           config'[TheLang][TheKey] = GoogleTranslator(lower(TheLang), TheKey)
    /\ config' # config =>
           \E c \in Callers :
               /\ callers[c].pc = "resolve_91"
               /\ callers[c].result = GoogleTranslator(lower(TheLang), TheKey)
               /\ callers'[c].calls = Append(callers[c].calls, Outcome("ok", callers[c].result, 1))
               /\ DOMAIN config' = DOMAIN config
               /\ config' = [config EXCEPT ![TheLang] = Put(@, TheKey, callers[c].result)]
    /\ \A c \in Callers :
           (callers[c].pc = "resolve_90" /\ callers'[c].pc # "resolve_90"
                /\ callers'[c].result = None)
               => config' = config

\* The later table[key] of each caller, once made, returned the stored value
\* without a provider call
LaterReturnsStored ==
    /\ TheLang \in DOMAIN config
    /\ TheKey \in DOMAIN config[TheLang]
    /\ \A c \in Callers :
           Len(callers[c].calls) = 2 =>
               callers[c].calls[2] = Outcome("ok", config[TheLang][TheKey], 0)

\* C17 as stated, for a language the config holds: the map is never torn, a
\* caller whose provider call failed writes nothing, and after both calls
\* finish the key is present and both later resolves return the stored value.
C17_PresentAfterBothFinish ==
    [][ (AbsentUnderTranslate /\ TheLang \in DOMAIN seed) =>
          /\ NeverTorn
          /\ BothLeftFirst' => LaterReturnsStored' ]_vars

\* C17 amended, for every language: the map is never torn, a caller whose
\* provider call failed writes nothing, and after both calls finish, if the
\* provider call of one of them returned, the key is present and both later
\* resolves return the stored value without a provider call.
C17_PresentAfterOneReturned ==
    [][ AbsentUnderTranslate =>
          /\ NeverTorn
          /\ (BothLeftFirst' /\ \E c \in Callers : callers'[c].calls[1].res = "ok")
                => LaterReturnsStored' ]_vars

\* Both callers were suspended at the provider for the key, both stored,
\* and both later resolves were hits
C17_Witness ==
    /\ AbsentUnderTranslate
    /\ \A c \in Callers :
           /\ callers[c].pc = "done"
           /\ Len(callers[c].calls) = 2
           /\ callers[c].calls[1] = Outcome("ok", GoogleTranslator(lower(TheLang), TheKey), 1)
           /\ callers[c].calls[2] = Outcome("ok", GoogleTranslator(lower(TheLang), TheKey), 0)

====
